---- MODULE Spec2Model ----
(***************************************************************************)
(* The remote-state poller of quirky_binder_capnp_client (src/main.rs):    *)
(* the poller thread (state_poller with its update_graph cycle and the     *)
(* select! that races a cycle against the cancellation token), the         *)
(* sync_channel(1) between the poller and the viewer, and the viewer       *)
(* thread (SvgViewer::update, SvgViewer::on_exit).                          *)
(*                                                                         *)
(* The poller runs on one thread under a LocalPool.  A poll of the select! *)
(* polls its two futures (the boxed update_graph() future and              *)
(* cancellation_token.cancelled()) in an order chosen per poll; the model  *)
(* splits a poll into one step per polled future, so that the viewer       *)
(* thread can act between them.  sender.send is a blocking call made from  *)
(* inside the update future: while it blocks, nothing else runs on the     *)
(* poller thread.                                                          *)
(***************************************************************************)
EXTENDS Naturals, Sequences, FiniteSets

\* Bound of the model: the number of node_statuses requests a session issues.
MaxCycles == 3

\* sync_channel(1): the size of the channel's buffer.
ChannelCapacity == 1

\* The graph values the remote "state" service may answer graph() with.
Graphs == {"G1", "G2"}

VARIABLES
    pc,            \* position of the poller thread
    cyc,           \* await point at which the update_graph future is suspended
    polled,        \* futures already polled in the current poll of the select!
    rpcResp,       \* answer to the node_statuses request in flight
    dotProc,       \* state of the dot child process
    timerElapsed,  \* the 3000 ms Timer of the running cycle has elapsed
    transport,     \* the rpc_system task spawned on the LocalPool
    stateClient,   \* the "state" service has been resolved (`state`, line 88)
    graph,         \* the value of `graph` (fetched once)
    builtFrom,     \* the graph the last description was built from
    graphReqs,     \* graph_request() calls issued
    rpcCount,      \* node_statuses_request() calls issued
    renders,       \* dot child processes started
    chan,          \* buffer of the sync_channel
    sent,          \* snapshots whose send returned, in order
    received,      \* snapshots try_recv returned, in order
    senderAlive,   \* the SyncSender has not been dropped
    receiverAlive, \* the Receiver (field of SvgViewer) has not been dropped
    cancelReq,     \* cancellation_token.cancel() was called
    consumer,      \* position of the viewer thread
    lastRecv,      \* outcome of the viewer's last try_recv
    closedSeen,    \* try_recv has returned Disconnected at least once
    content,       \* SvgViewer.content
    closeAt,       \* SvgViewer.close_at
    now,           \* Instant::now(), in seconds since its first read
    closeCmd,      \* ViewportCommand::Close was sent
    lastErr,       \* the step whose error ended state_poller
    leftAt,        \* await point of the cycle when the cancelled branch was taken
    cancelInWait,  \* cancel() was called while the cycle was in its interval wait
    rpcAtCancel,   \* rpcCount when cancel() was called
    sentAtCancel,  \* Len(sent) when cancel() was called
    waits,         \* interval waits of the cycle that ran to their end
    discDone,      \* rpc_disconnect.await returned Ok
    graceDone,     \* the grace Timer after the disconnect has elapsed
    bPhase,        \* position of a cycle in the building of its description
    bCycle,        \* cycles that have taken their snapshot
    bGraph,        \* the graph message (`graph`, line 91)
    bSnap,         \* the answer to node_statuses of the running cycle
    bStatuses,     \* the BTreeMap `statuses` (line 96)
    bDot,          \* the text of `dot` (line 101)
    bChild,        \* what the dot child process of the running cycle does
    bResult,       \* what dot_to_svg returned
    bHist          \* per cycle, its snapshot and the description it built

sessionVars == << pc, cyc, polled, rpcResp, dotProc, timerElapsed, transport,
                  stateClient, graph,
                  builtFrom, graphReqs, rpcCount, renders, chan, sent, received,
                  senderAlive, receiverAlive, cancelReq, consumer, lastRecv,
                  closedSeen, content, closeAt, now, closeCmd, lastErr,
                  leftAt, cancelInWait, rpcAtCancel, sentAtCancel, waits, discDone,
                  graceDone >>

buildVars == << bPhase, bCycle, bGraph, bSnap, bStatuses, bDot, bChild,
               bResult, bHist >>

vars == << sessionVars, buildVars >>

pollerVars == << pc, cyc, polled, rpcResp, dotProc, timerElapsed, transport,
                 stateClient, graph, builtFrom, graphReqs, rpcCount, renders, senderAlive,
                 lastErr, leftAt, discDone, graceDone, waits >>

viewerVars == << receiverAlive, cancelReq, consumer, lastRecv, closedSeen,
                 content, closeAt, now, closeCmd, cancelInWait, rpcAtCancel,
                 sentAtCancel >>

chanVars == << chan, sent, received >>

----------------------------------------------------------------------------
\* Positions of the poller thread.
Terminated == {"stopped", "failed", "panicked"}

InSession == {"service", "graph", "loop", "select", "pollUpdate",
              "pollCancel", "sending", "disconnect"}

\* The await points of update_graph (lines 94, 164, 169); "start" is the
\* future before its first poll.
AwaitPoints == {"start", "rpc", "dot", "timer"}

\* Content::Logo and Content::Dot (lines 199-202); the tree of a Dot is
\* identified by the snapshot it was parsed from.
Logo == [kind |-> "Logo"]

Dot(svg) == [kind |-> "Dot", svg |-> svg]

\* Option<Instant>: None, and Some(at) with `at` in seconds.
None == << >>

Some(at) == << at >>

\* The state after SvgViewer::new (lines 213-243): the poller thread has
\* been spawned and has run nothing yet.
SessionInit ==
    /\ pc = "parse"
    /\ cyc = "start"
    /\ polled = 0
    /\ rpcResp = "none"
    /\ dotProc = "none"
    /\ timerElapsed = FALSE
    /\ transport = "none"
    /\ stateClient = FALSE
    /\ graph = "none"
    /\ builtFrom = "none"
    /\ graphReqs = 0
    /\ rpcCount = 0
    /\ renders = 0
    /\ chan = << >>
    /\ sent = << >>
    /\ received = << >>
    /\ senderAlive = TRUE
    /\ receiverAlive = TRUE
    /\ cancelReq = FALSE
    /\ consumer = "running"
    /\ lastRecv = "none"
    /\ closedSeen = FALSE
    /\ content = Logo
    /\ closeAt = None
    /\ now = 0
    /\ closeCmd = FALSE
    /\ lastErr = "none"
    /\ leftAt = "none"
    /\ cancelInWait = FALSE
    /\ rpcAtCancel = 0
    /\ sentAtCancel = 0
    /\ waits = 0
    /\ discDone = FALSE
    /\ graceDone = FALSE

\* In the model of the session the building of the descriptions is left out:
\* a snapshot is identified by the number of its request.
Init ==
    /\ SessionInit
    /\ bPhase = "off"
    /\ bCycle = 0
    /\ bGraph = [nodes |-> << >>, edges |-> << >>]
    /\ bSnap = << >>
    /\ bStatuses = {}
    /\ bDot = << >>
    /\ bChild = [spawns |-> FALSE, reads |-> FALSE, waited |-> FALSE, status |-> 0,
                 stdout |-> << >>, stderr |-> << >>]
    /\ bResult = [ok |-> FALSE, text |-> << >>]
    /\ bHist = << >>

----------------------------------------------------------------------------
\* The channel.

\* A send that never waits for room in the buffer.
CanSendUnbounded(ch) == TRUE

\* SyncSender::send returns at once when the buffer has room, and blocks
\* otherwise.
CanSend(ch) == Len(ch) < ChannelCapacity

\* A try_recv that reports Disconnected as soon as the sender is dropped,
\* whatever the buffer still holds.
TryRecvClosedEarly(ch, alive) ==
    IF ~alive THEN "closed"
    ELSE IF ch # << >> THEN "item"
    ELSE "empty"

\* Receiver::try_recv: the head of the buffer; Empty while a sender lives;
\* Disconnected once the buffer is empty and the sender is dropped.
TryRecv(ch, alive) ==
    IF ch # << >> THEN "item"
    ELSE IF alive THEN "empty"
    ELSE "closed"

\* A try_recv that leaves the item it returned in the buffer.
DequeueKeep(ch) == ch

\* What try_recv leaves in the buffer when it returns an item.
Dequeue(ch) == Tail(ch)

----------------------------------------------------------------------------
\* The poller thread: state_poller.

\* An error that restarts the loop instead of ending state_poller.
OnErrorRetry == "loop"

\* An error that takes the poller through the disconnect.
OnErrorDisconnect == "disconnect"

\* Where the poller goes when a step returns an error: `?` returns the error
\* from the async block, run_until(...)? returns it from state_poller, the
\* thread's closure logs it and returns.
OnError == "failed"

\* The error leaves the async block: its captures (the sender among them)
\* are dropped, the futures of the cycle with them.
Fail(e) ==
    /\ pc' = OnError
    /\ lastErr' = e
    /\ senderAlive' = FALSE
    /\ rpcResp' = "none"
    /\ dotProc' = "none"
    /\ timerElapsed' = FALSE
    /\ polled' = 0

\* let pid: u32 = args.next().unwrap_or_else(..).parse()?
ParseArgs ==
    /\ pc = "parse"
    /\ \/ /\ pc' = "connect"
          /\ UNCHANGED << lastErr, senderAlive, rpcResp, dotProc, timerElapsed, polled >>
       \/ Fail("args")
    /\ UNCHANGED << cyc, transport, stateClient, graph, builtFrom, graphReqs, rpcCount,
                    renders, leftAt, discDone, graceDone, waits >>
    /\ UNCHANGED viewerVars
    /\ UNCHANGED buildVars
    /\ UNCHANGED chanVars

\* connect(pid).await?, client_connection, spawn_local(rpc_system)?
Connect ==
    /\ pc = "connect"
    /\ \/ /\ pc' = "service"
          /\ transport' = "up"
          /\ UNCHANGED << lastErr, senderAlive, rpcResp, dotProc, timerElapsed, polled >>
       \/ /\ Fail("connect")
          /\ UNCHANGED transport
    /\ UNCHANGED << cyc, stateClient, graph, builtFrom, graphReqs, rpcCount, renders,
                    leftAt, discDone, graceDone, waits >>
    /\ UNCHANGED viewerVars
    /\ UNCHANGED buildVars
    /\ UNCHANGED chanVars

\* The answers a request can get: an error once the transport has failed.
Answers == IF transport = "up" THEN {"ok", "err"} ELSE {"err"}

\* teleop.service_request() for "state", get_service(), get_as()
Service ==
    /\ pc = "service"
    /\ \E r \in Answers :
          IF r = "ok"
          THEN /\ pc' = "graph"
               /\ stateClient' = TRUE
               /\ UNCHANGED << lastErr, senderAlive, rpcResp, dotProc, timerElapsed, polled >>
          ELSE /\ Fail("service")
               /\ UNCHANGED stateClient
    /\ UNCHANGED << cyc, transport, graph, builtFrom, graphReqs, rpcCount,
                    renders, leftAt, discDone, graceDone, waits >>
    /\ UNCHANGED viewerVars
    /\ UNCHANGED buildVars
    /\ UNCHANGED chanVars

\* state.graph_request().send().promise.await?, get_graph()?
FetchGraph ==
    /\ pc = "graph"
    /\ graphReqs' = graphReqs + 1
    /\ \E r \in Answers :
          IF r = "ok"
          THEN /\ \E g \in Graphs : graph' = g
               /\ pc' = "loop"
               /\ UNCHANGED << lastErr, senderAlive, rpcResp, dotProc, timerElapsed, polled >>
          ELSE /\ Fail("graph")
               /\ UNCHANGED graph
    /\ UNCHANGED << cyc, transport, stateClient, builtFrom, rpcCount, renders,
                    leftAt, discDone, graceDone, waits >>
    /\ UNCHANGED viewerVars
    /\ UNCHANGED buildVars
    /\ UNCHANGED chanVars

----------------------------------------------------------------------------
\* The cycle loop (lines 174-185).

\* A poll of the update future that returns Pending: the select! polls the
\* cancelled future next if it has not polled it yet, otherwise the task
\* is parked until it is woken.
Park ==
    IF polled = 0
    THEN /\ pc' = "pollCancel"
         /\ polled' = 1
    ELSE /\ pc' = "select"
         /\ polled' = 0

\* A loop that fetches the graph again after each cycle.
AfterCycleRefetch == "graph"

\* Where the loop continues when the update branch of the select! is taken
\* with Ok(()).
AfterCycle == "loop"

\* A cancelled branch that goes on polling the update future.
AfterBreakContinue == "pollUpdate"

\* Where the poller continues when the cancelled branch is taken: break.
AfterBreak == "disconnect"

\* The orders in which a poll of the select! may poll its two futures.  The
\* bound on the number of cycles stops a new cycle from starting.
Orders == IF rpcCount < MaxCycles THEN {"update", "cancel"} ELSE {"cancel"}

\* Top of the loop: a new update future, a new cancelled future, and the
\* first poll of the select!.
LoopTop ==
    /\ pc = "loop"
    /\ rpcCount < MaxCycles \/ cancelReq
    /\ cyc' = "start"
    /\ polled' = 0
    /\ \E first \in Orders :
          pc' = IF first = "update" THEN "pollUpdate" ELSE "pollCancel"
    /\ UNCHANGED << rpcResp, dotProc, timerElapsed, transport, stateClient, graph,
                    builtFrom, graphReqs, rpcCount, renders, senderAlive,
                    lastErr, leftAt, discDone, graceDone, waits >>
    /\ UNCHANGED viewerVars
    /\ UNCHANGED buildVars
    /\ UNCHANGED chanVars

\* The parked task has been woken: by the answer to the request, by the exit
\* of the child process, by the timer or by the cancellation token.
Woken ==
    \/ cancelReq
    \/ cyc = "rpc" /\ rpcResp \in {"ok", "err"}
    \/ cyc = "dot" /\ dotProc \in {"ok", "fail"}
    \/ cyc = "timer" /\ timerElapsed

\* A later poll of the select!.
PollBegin ==
    /\ pc = "select"
    /\ Woken
    /\ polled' = 0
    /\ \E first \in {"update", "cancel"} :
          pc' = IF first = "update" THEN "pollUpdate" ELSE "pollCancel"
    /\ UNCHANGED << cyc, rpcResp, dotProc, timerElapsed, transport, stateClient, graph,
                    builtFrom, graphReqs, rpcCount, renders, senderAlive,
                    lastErr, leftAt, discDone, graceDone, waits >>
    /\ UNCHANGED viewerVars
    /\ UNCHANGED buildVars
    /\ UNCHANGED chanVars

\* What the code between the answer to node_statuses and the start of the
\* child process can end with: an error decoding the statuses (lines 95-99),
\* an error reading the graph while building the description (lines 105-160),
\* an error starting the child process (line 39), or the child started.
StretchOutcomes == {"ok", "decode", "build", "render"}

\* update_graph, first poll: the node_statuses request is sent (line 94).
UpdateStart ==
    /\ pc = "pollUpdate"
    /\ cyc = "start"
    /\ rpcCount' = rpcCount + 1
    /\ rpcResp' = "pending"
    /\ cyc' = "rpc"
    /\ Park
    /\ UNCHANGED << dotProc, timerElapsed, transport, stateClient, graph, builtFrom,
                    graphReqs, renders, senderAlive, lastErr, leftAt,
                    discDone, graceDone, waits >>
    /\ UNCHANGED viewerVars
    /\ UNCHANGED buildVars
    /\ UNCHANGED chanVars

\* update_graph polled while it awaits the answer to node_statuses: Pending,
\* the error of the request, or the statuses are decoded, the description is
\* built and the child process is started (lines 94-164, 35-45).
UpdateRpc ==
    /\ pc = "pollUpdate"
    /\ cyc = "rpc"
    /\ CASE rpcResp = "pending" ->
              /\ Park
              /\ UNCHANGED << cyc, rpcResp, dotProc, timerElapsed, builtFrom,
                              renders, senderAlive, lastErr >>
         [] rpcResp = "err" ->
              /\ Fail("rpc")
              /\ UNCHANGED << cyc, builtFrom, renders >>
         [] rpcResp = "ok" ->
              \E o \in StretchOutcomes :
                 IF o = "ok"
                 THEN /\ builtFrom' = graph
                      /\ renders' = renders + 1
                      /\ dotProc' = "running"
                      /\ rpcResp' = "none"
                      /\ cyc' = "dot"
                      /\ Park
                      /\ UNCHANGED << timerElapsed, senderAlive, lastErr >>
                 ELSE /\ Fail(o)
                      /\ builtFrom' = IF o = "render" THEN graph ELSE builtFrom
                      /\ UNCHANGED << cyc, renders >>
    /\ UNCHANGED << transport, stateClient, graph, graphReqs, rpcCount, leftAt, discDone,
                    graceDone, waits >>
    /\ UNCHANGED viewerVars
    /\ UNCHANGED buildVars
    /\ UNCHANGED chanVars

\* update_graph polled while it awaits the child process (lines 42-54):
\* Pending, the error of the render, or the svg, with which the poller
\* calls sender.send (line 165).
UpdateDot ==
    /\ pc = "pollUpdate"
    /\ cyc = "dot"
    /\ CASE dotProc = "running" ->
              /\ Park
              /\ UNCHANGED << rpcResp, dotProc, timerElapsed, senderAlive, lastErr >>
         [] dotProc = "fail" ->
              Fail("render")
         [] dotProc = "ok" ->
              /\ pc' = "sending"
              /\ dotProc' = "none"
              /\ UNCHANGED << polled, rpcResp, timerElapsed, senderAlive, lastErr >>
    /\ UNCHANGED << cyc, transport, stateClient, graph, builtFrom, graphReqs, rpcCount,
                    renders, leftAt, discDone, graceDone, waits >>
    /\ UNCHANGED viewerVars
    /\ UNCHANGED buildVars
    /\ UNCHANGED chanVars

\* sender.send(svg).unwrap(), ctx.request_repaint(), and the Timer is created
\* and polled (lines 165-169).  The send blocks the thread while the buffer
\* is full; it panics when the receiver is gone.
Send ==
    /\ pc = "sending"
    /\ IF receiverAlive
       THEN /\ CanSend(chan)
            /\ chan' = Append(chan, rpcCount)
            /\ sent' = Append(sent, rpcCount)
            /\ cyc' = "timer"
            /\ timerElapsed' = FALSE
            /\ Park
            /\ UNCHANGED << senderAlive, lastErr >>
       ELSE /\ pc' = "panicked"
            /\ lastErr' = "send"
            /\ senderAlive' = FALSE
            /\ UNCHANGED << chan, sent, cyc, timerElapsed, polled >>
    /\ UNCHANGED << rpcResp, dotProc, transport, stateClient, graph, builtFrom, graphReqs,
                    rpcCount, renders, leftAt, discDone, graceDone, waits, received >>
    /\ UNCHANGED viewerVars
    /\ UNCHANGED buildVars

\* update_graph polled while it awaits the Timer (line 169): Pending, or
\* Ok(()) (line 171), which the select! returns through its update branch.
UpdateTimer ==
    /\ pc = "pollUpdate"
    /\ cyc = "timer"
    /\ IF timerElapsed
       THEN /\ pc' = AfterCycle
            /\ polled' = 0
            /\ timerElapsed' = FALSE
            /\ waits' = waits + 1
       ELSE /\ Park
            /\ UNCHANGED << timerElapsed, waits >>
    /\ UNCHANGED << cyc, rpcResp, dotProc, transport, stateClient, graph, builtFrom,
                    graphReqs, rpcCount, renders, senderAlive, lastErr,
                    leftAt, discDone, graceDone >>
    /\ UNCHANGED viewerVars
    /\ UNCHANGED buildVars
    /\ UNCHANGED chanVars

\* A loop that checks the token only before a cycle starts, and lets a cycle
\* that has started run to its end.
PollCancelAtTopOnly ==
    /\ pc = "pollCancel"
    /\ IF cancelReq /\ cyc = "start"
       THEN /\ pc' = AfterBreak
            /\ leftAt' = cyc
            /\ polled' = 0
            /\ rpcResp' = "none"
            /\ dotProc' = "none"
            /\ timerElapsed' = FALSE
       ELSE /\ IF polled = 0
               THEN /\ pc' = "pollUpdate"
                    /\ polled' = 1
               ELSE /\ pc' = "select"
                    /\ polled' = 0
            /\ UNCHANGED << leftAt, rpcResp, dotProc, timerElapsed >>
    /\ UNCHANGED << cyc, transport, stateClient, graph, builtFrom, graphReqs,
                    rpcCount, renders, senderAlive, lastErr, discDone, graceDone, waits >>
    /\ UNCHANGED viewerVars
    /\ UNCHANGED buildVars
    /\ UNCHANGED chanVars

\* The cancelled future is polled (lines 176, 181-183): Ready once cancel()
\* was called, and the loop breaks, dropping the update future; otherwise
\* the select! polls the update future if it has not polled it yet.
PollCancel ==
    /\ pc = "pollCancel"
    /\ IF cancelReq
       THEN /\ pc' = AfterBreak
            /\ leftAt' = cyc
            /\ polled' = 0
            /\ rpcResp' = "none"
            /\ dotProc' = "none"
            /\ timerElapsed' = FALSE
       ELSE /\ IF polled = 0
               THEN /\ pc' = "pollUpdate"
                    /\ polled' = 1
               ELSE /\ pc' = "select"
                    /\ polled' = 0
            /\ UNCHANGED << leftAt, rpcResp, dotProc, timerElapsed >>
    /\ UNCHANGED << cyc, transport, stateClient, graph, builtFrom, graphReqs, rpcCount,
                    renders, senderAlive, lastErr, discDone, graceDone, waits >>
    /\ UNCHANGED viewerVars
    /\ UNCHANGED buildVars
    /\ UNCHANGED chanVars

----------------------------------------------------------------------------
\* After the loop (lines 187-196).

\* A disconnect that is not followed by the grace Timer.
AfterDisconnectNoGrace == "drain"

\* Where the poller continues when rpc_disconnect.await returns Ok: the
\* grace Timer (line 189).
AfterDisconnect == "grace"

\* rpc_disconnect.await? (line 187)
Disconnect ==
    /\ pc = "disconnect"
    /\ \E r \in {"ok", "err"} :
          IF r = "ok"
          THEN /\ pc' = AfterDisconnect
               /\ transport' = "closed"
               /\ discDone' = TRUE
               /\ UNCHANGED << lastErr, senderAlive, rpcResp, dotProc, timerElapsed, polled >>
          ELSE /\ Fail("disconnect")
               /\ UNCHANGED << transport, discDone >>
    /\ UNCHANGED << cyc, stateClient, graph, builtFrom, graphReqs, rpcCount, renders,
                    leftAt, graceDone, waits >>
    /\ UNCHANGED viewerVars
    /\ UNCHANGED buildVars
    /\ UNCHANGED chanVars

\* Timer::after(3000 ms).await (line 189), then the async block returns Ok
\* (line 191) and its captures, the sender among them, are dropped.
Grace ==
    /\ pc = "grace"
    /\ graceDone' = TRUE
    /\ senderAlive' = FALSE
    /\ pc' = "drain"
    /\ UNCHANGED << cyc, polled, rpcResp, dotProc, timerElapsed, transport,
                    stateClient, graph, builtFrom, graphReqs, rpcCount, renders, lastErr,
                    leftAt, discDone, waits >>
    /\ UNCHANGED viewerVars
    /\ UNCHANGED buildVars
    /\ UNCHANGED chanVars

\* exec.run() (line 194), Ok(()) (line 196), and the thread's closure
\* returns (lines 228-229).
Drain ==
    /\ pc = "drain"
    /\ pc' = "stopped"
    /\ UNCHANGED << cyc, polled, rpcResp, dotProc, timerElapsed, transport,
                    stateClient, graph, builtFrom, graphReqs, rpcCount, renders,
                    senderAlive, lastErr, leftAt, discDone, graceDone, waits >>
    /\ UNCHANGED viewerVars
    /\ UNCHANGED buildVars
    /\ UNCHANGED chanVars

----------------------------------------------------------------------------
\* What the poller waits for.

\* The remote answers the node_statuses request (awaited at line 94).
RpcRespond ==
    /\ rpcResp = "pending"
    /\ \E r \in Answers : rpcResp' = r
    /\ UNCHANGED << pc, cyc, polled, dotProc, timerElapsed, transport, stateClient, graph,
                    builtFrom, graphReqs, rpcCount, renders, senderAlive,
                    lastErr, leftAt, discDone, graceDone, waits >>
    /\ UNCHANGED viewerVars
    /\ UNCHANGED buildVars
    /\ UNCHANGED chanVars

\* The child process exits (awaited at line 45); "fail" is every way
\* dot_to_svg returns Err after the child was started (lines 42-54).
DotExits ==
    /\ dotProc = "running"
    /\ \E r \in {"ok", "fail"} : dotProc' = r
    /\ UNCHANGED << pc, cyc, polled, rpcResp, timerElapsed, transport, stateClient, graph,
                    builtFrom, graphReqs, rpcCount, renders, senderAlive,
                    lastErr, leftAt, discDone, graceDone, waits >>
    /\ UNCHANGED viewerVars
    /\ UNCHANGED buildVars
    /\ UNCHANGED chanVars

\* The 3000 ms of the cycle's Timer elapse (awaited at line 169).
TimerFires ==
    /\ cyc = "timer"
    /\ pc \in {"select", "pollUpdate", "pollCancel"}
    /\ ~timerElapsed
    /\ timerElapsed' = TRUE
    /\ UNCHANGED << pc, cyc, polled, rpcResp, dotProc, transport, stateClient, graph,
                    builtFrom, graphReqs, rpcCount, renders, senderAlive,
                    lastErr, leftAt, discDone, graceDone, waits >>
    /\ UNCHANGED viewerVars
    /\ UNCHANGED buildVars
    /\ UNCHANGED chanVars

\* A failure of the rpc_system task that ends state_poller with its error.
TransportFailsAborts ==
    /\ transport = "up"
    /\ pc \in InSession
    /\ transport' = "failed"
    /\ Fail("transport")
    /\ UNCHANGED << cyc, stateClient, graph, builtFrom, graphReqs, rpcCount,
                    renders, leftAt, discDone, graceDone, waits >>
    /\ UNCHANGED viewerVars
    /\ UNCHANGED buildVars
    /\ UNCHANGED chanVars

\* The rpc_system task ends with an error, which it only prints
\* (lines 78-82).
TransportFails ==
    /\ transport = "up"
    /\ pc \in InSession
    /\ transport' = "failed"
    /\ UNCHANGED << pc, cyc, polled, rpcResp, dotProc, timerElapsed, stateClient, graph,
                    builtFrom, graphReqs, rpcCount, renders, senderAlive,
                    lastErr, leftAt, discDone, graceDone, waits >>
    /\ UNCHANGED viewerVars
    /\ UNCHANGED buildVars
    /\ UNCHANGED chanVars

----------------------------------------------------------------------------
\* The viewer thread: SvgViewer::update and SvgViewer::on_exit.

\* Bounds of the model: the clock of the viewer advances in steps of
\* TickSecs seconds, up to MaxTime seconds.
TickSecs == 30

MaxTime == 90

\* Duration::from_secs(60) (line 278).
CloseDelaySecs == 60

\* A Disconnected arm that sets the deadline again at every observation.
ClosedDeadlineMoved(ca, t) == Some(t + CloseDelaySecs)

\* The Disconnected arm (lines 273-282): close_at is kept when it is Some,
\* and set to now + 60 s when it is None.
ClosedDeadline(ca, t) == IF ca = None THEN Some(t + CloseDelaySecs) ELSE ca

\* The check at the top of update (lines 248-251): Close is sent when
\* close_at is Some(at) and at < now.
CloseDue(ca, t) == ca # None /\ ca[1] < t

\* One call of update (lines 247-285): the close_at check; the early return
\* when cpu_usage is None; try_recv and its three arms.  The svg that
\* usvg cannot parse leaves the content as it was (line 266).
Frame ==
    /\ consumer = "running"
    /\ closeCmd' = (closeCmd \/ CloseDue(closeAt, now))
    /\ \E cpu \in BOOLEAN, parsed \in BOOLEAN :
          IF ~cpu
          THEN /\ ~parsed
               /\ UNCHANGED << chan, received, lastRecv, closedSeen, content, closeAt >>
          ELSE CASE TryRecv(chan, senderAlive) = "item" ->
                      /\ received' = Append(received, Head(chan))
                      /\ chan' = Dequeue(chan)
                      /\ content' = IF parsed THEN Dot(Head(chan)) ELSE content
                      /\ lastRecv' = "item"
                      /\ UNCHANGED << closedSeen, closeAt >>
                 [] TryRecv(chan, senderAlive) = "empty" ->
                      /\ ~parsed
                      /\ lastRecv' = "empty"
                      /\ UNCHANGED << chan, received, closedSeen, content, closeAt >>
                 [] TryRecv(chan, senderAlive) = "closed" ->
                      /\ ~parsed
                      /\ lastRecv' = "closed"
                      /\ closedSeen' = TRUE
                      /\ closeAt' = ClosedDeadline(closeAt, now)
                      /\ UNCHANGED << chan, received, content >>
    /\ UNCHANGED << receiverAlive, cancelReq, consumer, now, cancelInWait,
                    rpcAtCancel, sentAtCancel, sent >>
    /\ UNCHANGED pollerVars
    /\ UNCHANGED buildVars

\* Time passes between two calls of update.  Instant::now() is first read
\* in the Disconnected arm (line 273), which is the origin of `now`; before
\* that no code reads the clock.
ClockAdvances ==
    /\ consumer = "running"
    /\ closeAt # None
    /\ now < MaxTime
    /\ now' = now + TickSecs
    /\ UNCHANGED << receiverAlive, cancelReq, consumer, lastRecv, closedSeen,
                    content, closeAt, closeCmd, cancelInWait, rpcAtCancel,
                    sentAtCancel >>
    /\ UNCHANGED pollerVars
    /\ UNCHANGED buildVars
    /\ UNCHANGED chanVars

\* The cycle is suspended in its interval wait and the timer has not fired.
InIntervalWait ==
    /\ cyc = "timer"
    /\ pc \in {"select", "pollUpdate", "pollCancel"}
    /\ ~timerElapsed

\* on_exit, up to the join (lines 349-352): the token is cancelled and the
\* viewer thread blocks in poller.join().
OnExit ==
    /\ consumer = "running"
    /\ cancelReq' = TRUE
    /\ cancelInWait' = InIntervalWait
    /\ rpcAtCancel' = rpcCount
    /\ sentAtCancel' = Len(sent)
    /\ consumer' = "joining"
    /\ UNCHANGED << receiverAlive, lastRecv, closedSeen, content, closeAt,
                    now, closeCmd >>
    /\ UNCHANGED pollerVars
    /\ UNCHANGED buildVars
    /\ UNCHANGED chanVars

\* An on_exit that cancels the token and returns without joining the poller.
JoinReturnsEarly ==
    /\ consumer = "joining"
    /\ consumer' = "exited"
    /\ UNCHANGED << receiverAlive, cancelReq, lastRecv, closedSeen, content,
                    closeAt, now, closeCmd, cancelInWait, rpcAtCancel,
                    sentAtCancel >>
    /\ UNCHANGED pollerVars
    /\ UNCHANGED buildVars
    /\ UNCHANGED chanVars

\* poller.join() returns once the poller thread has ended (lines 352-358).
JoinReturns ==
    /\ consumer = "joining"
    /\ pc \in Terminated
    /\ consumer' = "exited"
    /\ UNCHANGED << receiverAlive, cancelReq, lastRecv, closedSeen, content,
                    closeAt, now, closeCmd, cancelInWait, rpcAtCancel,
                    sentAtCancel >>
    /\ UNCHANGED pollerVars
    /\ UNCHANGED buildVars
    /\ UNCHANGED chanVars

\* After on_exit the SvgViewer is dropped, and its receiver with it.
DropViewer ==
    /\ consumer = "exited"
    /\ receiverAlive
    /\ receiverAlive' = FALSE
    /\ UNCHANGED << cancelReq, consumer, lastRecv, closedSeen, content,
                    closeAt, now, closeCmd, cancelInWait, rpcAtCancel,
                    sentAtCancel >>
    /\ UNCHANGED pollerVars
    /\ UNCHANGED buildVars
    /\ UNCHANGED chanVars

----------------------------------------------------------------------------
\* The description of a cycle and its rendering (lines 30-55 and 93-164).
\* Texts are sequences of characters.

\* Bound of the description model: the cycles of one run.
MaxBuilds == 3

\* Node names the remote graph may carry: a, b, a"b, a b, a\ .
NameA == << "a" >>

NameB == << "b" >>

NameQuote == << "a", "\"", "b" >>

NameSpace == << "a", " ", "b" >>

NameBackslash == << "a", "\\" >>

\* A node and an edge of the graph message (lines 105-119, 128, 134).
Node(name) == [name |-> name]

Edge(tn, ti, hn, hi) ==
    [tail_name |-> tn, tail_index |-> ti, head_name |-> hn, head_index |-> hi]

\* The graphs the "state" service answers graph() with (lines 90-91).
BGraphs ==
    { [nodes |-> << >>, edges |-> << >>],
      [nodes |-> << Node(NameA), Node(NameB) >>,
       edges |-> << Edge(NameA, 0, NameB, 1) >>],
      [nodes |-> << Node(NameA), Node(NameB) >>,
       edges |-> << Edge(NameA, 1, NameB, 0), Edge(NameB, 0, NameA, 1) >>],
      [nodes |-> << Node(NameQuote), Node(NameSpace) >>,
       edges |-> << Edge(NameQuote, 0, NameSpace, 0) >>],
      [nodes |-> << Node(NameBackslash) >>,
       edges |-> << Edge(NameBackslash, 1, NameBackslash, 1) >>] }

\* One entry of the node_statuses answer (lines 94-98): the node's name and
\* its counters, one per port.  Every node has two ports of each kind here, so
\* that the port indices of the edges above are in range.
Status(name, written, read) ==
    [node_name |-> name, output_written |-> written, input_read |-> read]

\* The answers to node_statuses_request (lines 94-95); the last one names
\* the same node twice.
BSnapshots ==
    { << >>,
      << Status(NameA, << 3, 12 >>, << 0, 5 >>) >>,
      << Status(NameB, << 7, 0 >>, << 105, 4 >>) >>,
      << Status(NameA, << 3, 12 >>, << 0, 5 >>),
         Status(NameB, << 7, 0 >>, << 105, 4 >>) >>,
      << Status(NameQuote, << 8, 9 >>, << 1, 2 >>),
         Status(NameSpace, << 10, 11 >>, << 6, 40 >>),
         Status(NameBackslash, << 0, 2 >>, << 0, 1 >>) >>,
      << Status(NameA, << 1, 1 >>, << 1, 1 >>),
         Status(NameA, << 20, 21 >>, << 22, 23 >>) >> }

\* What the dot child process does: whether it can be started, whether it
\* reads its standard input, whether waiting for it succeeds, its exit
\* status and what it writes to its standard output and standard error.
Child(spawns, reads, waited, status, out, err) ==
    [spawns |-> spawns, reads |-> reads, waited |-> waited, status |-> status,
     stdout |-> out, stderr |-> err]

NoChild == Child(FALSE, FALSE, FALSE, 0, << >>, << >>)

SvgText == << "<", "s", "v", "g", "/", ">" >>

WarningText == << "W", "a", "r", "n", "i", "n", "g" >>

SyntaxErrorText == << "s", "y", "n", "t", "a", "x", " ", "e", "r", "r", "o", "r" >>

BChildren ==
    { NoChild,
      Child(TRUE, FALSE, TRUE, 0, << >>, << >>),
      Child(TRUE, TRUE, FALSE, 0, << >>, << >>),
      Child(TRUE, TRUE, TRUE, 0, SvgText, << >>),
      Child(TRUE, TRUE, TRUE, 0, SvgText, WarningText),
      Child(TRUE, TRUE, TRUE, 1, << >>, SyntaxErrorText),
      Child(TRUE, TRUE, TRUE, 1, SvgText, << >>) }

\* node_name_to_dot_id (lines 30-32): format!("\"{name}\"").
node_name_to_dot_id(name) == << "\"" >> \o name \o << "\"" >>

\* u64::to_string (lines 141, 145): the decimal digits of n.
DigitChars == << "0", "1", "2", "3", "4", "5", "6", "7", "8", "9" >>

RECURSIVE to_string(_)
to_string(n) ==
    IF n < 10 THEN << DigitChars[n + 1] >>
    ELSE to_string(n \div 10) \o << DigitChars[(n % 10) + 1] >>

\* collect::<BTreeMap<&str, _>> (lines 96-99): the entries are inserted in
\* the order of the answer, and an insert replaces the entry of the same key.
RECURSIVE collect(_)
collect(ss) ==
    IF ss = << >> THEN {}
    ELSE LET last == ss[Len(ss)]
             m    == collect(SubSeq(ss, 1, Len(ss) - 1))
         IN  { s \in m : s.node_name # last.node_name } \cup { last }

\* statuses.get(name) (lines 130, 136).
get(statuses, name) ==
    IF \E s \in statuses : s.node_name = name
    THEN Some(CHOOSE s \in statuses : s.node_name = name)
    ELSE None

\* tail_counter (lines 128-132).
tail_counter(statuses, edge) ==
    LET s == get(statuses, edge.tail_name)
    IN  IF s = None THEN None ELSE Some(s[1].output_written[edge.tail_index + 1])

\* A head_counter read from the counters of the output ports.
head_counter_of_output(statuses, edge) ==
    LET s == get(statuses, edge.head_name)
    IN  IF s = None THEN None ELSE Some(s[1].output_written[edge.head_index + 1])

\* head_counter (lines 134-138).
head_counter(statuses, edge) ==
    LET s == get(statuses, edge.head_name)
    IN  IF s = None THEN None ELSE Some(s[1].input_read[edge.head_index + 1])

\* The attributes the loop of lines 140-148 iterates over: the tail label,
\* if any, chained with the head label, if any.
TailLabel == << "t", "a", "i", "l", "l", "a", "b", "e", "l" >>

HeadLabel == << "h", "e", "a", "d", "l", "a", "b", "e", "l" >>

attributes(statuses, edge) ==
    LET tc == tail_counter(statuses, edge)
        hc == head_counter(statuses, edge)
    IN  (IF tc = None THEN << >>
         ELSE << [attr |-> TailLabel, val |-> to_string(tc[1])] >>)
        \o
        (IF hc = None THEN << >>
         ELSE << [attr |-> HeadLabel, val |-> to_string(hc[1])] >>)

\* The concatenation of a sequence of texts.
RECURSIVE Flatten(_)
Flatten(texts) ==
    IF texts = << >> THEN << >> ELSE Head(texts) \o Flatten(Tail(texts))

\* The body of the attribute loop for the i-th attribute, i from 0
\* (lines 150-155).
AttributeText(i, a) ==
    (IF i > 0 THEN << ",", " " >> ELSE << "\n" >>)
    \o a.attr \o << " ", "=", " ", "\"" >> \o a.val \o << "\"", "\n" >>

\* The statement of an edge (lines 118-158).
EdgeStatement(statuses, edge) ==
    LET as == attributes(statuses, edge)
    IN  node_name_to_dot_id(edge.tail_name) \o << " ", "-", ">", " " >> \o
        node_name_to_dot_id(edge.head_name) \o << " ", "[" >> \o
        Flatten([i \in 1..Len(as) |-> AttributeText(i - 1, as[i])]) \o
        << "]", "\n" >>

\* The statement of a node (lines 107-113).
NodeStatement(node) == node_name_to_dot_id(node.name) \o << "\n" >>

\* A `dot` buffer that starts from the text of the cycle before.
StringKept(old) == old

\* let mut dot = String::new() (line 101).
StringNew(old) == << >>

\* The text update_graph builds in `dot` (lines 101-160); `old` is the text
\* of the cycle before.
description(old, g, statuses) ==
    StringNew(old) \o << "d", "i", "g", "r", "a", "p", "h", " ", "G", " ", "{", "\n" >> \o
    Flatten([i \in 1..Len(g.nodes) |-> NodeStatement(g.nodes[i])]) \o
    Flatten([i \in 1..Len(g.edges) |-> EdgeStatement(statuses, g.edges[i])]) \o
    << "}", "\n" >>

\* std::io::Result<String>.
Ok(text) == [ok |-> TRUE, text |-> text]

Err(text) == [ok |-> FALSE, text |-> text]

NoResult == Err(<< >>)

\* The streams of the child that are pipes (lines 37-38); the standard
\* error of the child is not configured and is inherited.
Piped == {"stdin", "stdout"}

\* child.output() collects the streams that are pipes (line 45).
Collected(stream, child) ==
    IF stream \in Piped THEN child[stream] ELSE << >>

\* The texts of the io errors of spawn, write_all and output.
SpawnErrorText == << "N", "o", " ", "s", "u", "c", "h", " ", "f", "i", "l", "e", " ", "o", "r", " ", "d", "i", "r", "e", "c", "t", "o", "r", "y" >>

WriteErrorText == << "B", "r", "o", "k", "e", "n", " ", "p", "i", "p", "e" >>

WaitErrorText == << "w", "a", "i", "t", " ", "f", "a", "i", "l", "e", "d" >>

\* The head of the error message of line 52.
ErrorHead == << "E", "r", "r", "e", "u", "r", " ", "l", "o", "r", "s", " ", "d", "e", " ", "l", "'", "e", "x", "e", "c", "u", "t", "i", "o", "n", " ", "d", "e", " ", "l", "a", " ", "c", "o", "m", "m", "a", "n", "d", "e", " ", "d", "o", "t", " ", ":", " " >>

\* dot_to_svg (lines 34-55).
dot_to_svg(dot_source, child) ==
    IF ~child.spawns THEN Err(SpawnErrorText)
    ELSE IF ~child.reads THEN Err(WriteErrorText)
    ELSE IF ~child.waited THEN Err(WaitErrorText)
    ELSE IF child.status = 0 THEN Ok(Collected("stdout", child))
    ELSE Err(ErrorHead \o Collected("stderr", child))

\* The answer to node_statuses_request and the map built from it
\* (lines 94-99); an error of the request or of the decoding ends the cycle.
TakeSnapshot ==
    /\ bPhase = "idle"
    /\ bCycle < MaxBuilds
    /\ \/ \E s \in BSnapshots :
             /\ bSnap' = s
             /\ bStatuses' = collect(s)
             /\ bCycle' = bCycle + 1
             /\ bPhase' = "collected"
       \/ /\ bPhase' = "failed"
          /\ UNCHANGED << bSnap, bStatuses, bCycle >>
    /\ UNCHANGED << bGraph, bDot, bChild, bResult, bHist >>
    /\ UNCHANGED sessionVars

\* The description is built (lines 101-160).
BuildDescription ==
    /\ bPhase = "collected"
    /\ bDot' = description(bDot, bGraph, bStatuses)
    /\ bHist' = Append(bHist, [snap |-> bSnap, dot |-> bDot'])
    /\ bPhase' = "built"
    /\ UNCHANGED << bCycle, bGraph, bSnap, bStatuses, bChild, bResult >>
    /\ UNCHANGED sessionVars

\* dot_to_svg(&dot).await (line 164), with the child that happens to run.
RunDot ==
    /\ bPhase = "built"
    /\ \E child \in BChildren :
          /\ bChild' = child
          /\ bResult' = dot_to_svg(bDot, child)
    /\ bPhase' = "rendered"
    /\ UNCHANGED << bCycle, bGraph, bSnap, bStatuses, bDot, bHist >>
    /\ UNCHANGED sessionVars

\* The `?` of line 164 and the rest of the cycle (lines 165-171): an error
\* ends the cycle and the loop, an image is handed over and the next cycle
\* may start.
Deliver ==
    /\ bPhase = "rendered"
    /\ bPhase' = IF bResult.ok THEN "idle" ELSE "failed"
    /\ bChild' = NoChild
    /\ bResult' = NoResult
    /\ UNCHANGED << bCycle, bGraph, bSnap, bStatuses, bDot, bHist >>
    /\ UNCHANGED sessionVars

----------------------------------------------------------------------------
PollerNext ==
    \/ ParseArgs
    \/ Connect
    \/ Service
    \/ FetchGraph
    \/ LoopTop
    \/ PollBegin
    \/ UpdateStart
    \/ UpdateRpc
    \/ UpdateDot
    \/ Send
    \/ UpdateTimer
    \/ PollCancel
    \/ Disconnect
    \/ Grace
    \/ Drain

EnvNext ==
    \/ RpcRespond
    \/ DotExits
    \/ TimerFires
    \/ TransportFails

ViewerNext ==
    \/ Frame
    \/ ClockAdvances
    \/ OnExit
    \/ JoinReturns
    \/ DropViewer

Next == PollerNext \/ EnvNext \/ ViewerNext

Spec == Init /\ [][Next]_vars

\* The cycles of one run seen as builds of descriptions: the graph is the
\* one the session fetched, every cycle draws its snapshot and its child.
BInit ==
    /\ SessionInit
    /\ bPhase = "idle"
    /\ bCycle = 0
    /\ bGraph \in BGraphs
    /\ bSnap = << >>
    /\ bStatuses = {}
    /\ bDot = << >>
    /\ bChild = NoChild
    /\ bResult = NoResult
    /\ bHist = << >>

BNext ==
    \/ TakeSnapshot
    \/ BuildDescription
    \/ RunDot
    \/ Deliver

BuildSpec == BInit /\ [][BNext]_vars

BTypeOK ==
    /\ bPhase \in {"off", "idle", "collected", "built", "rendered", "failed"}
    /\ bCycle \in 0..MaxBuilds
    /\ bGraph \in BGraphs
    /\ bSnap \in BSnapshots
    /\ bChild \in BChildren
    /\ bResult.ok \in BOOLEAN
    /\ Len(bHist) <= bCycle

TypeOK ==
    /\ pc \in {"parse", "connect", "service", "graph", "loop", "select",
               "pollUpdate", "pollCancel", "sending", "disconnect", "grace",
               "drain", "stopped", "failed", "panicked"}
    /\ cyc \in AwaitPoints
    /\ polled \in {0, 1}
    /\ rpcResp \in {"none", "pending", "ok", "err"}
    /\ dotProc \in {"none", "running", "ok", "fail"}
    /\ transport \in {"none", "up", "failed", "closed"}
    /\ graph \in Graphs \cup {"none"}
    /\ rpcCount \in 0..MaxCycles
    /\ Len(chan) <= ChannelCapacity
    /\ consumer \in {"running", "joining", "exited"}

----------------------------------------------------------------------------
\* Properties.

IsPrefix(a, b) ==
    /\ Len(a) <= Len(b)
    /\ \A i \in 1..Len(a) : a[i] = b[i]

\* The errors a step of a cycle can return.
CycleErrors == {"rpc", "decode", "build", "render"}

\* C1: once on_exit has cancelled the token and is joining the poller, the
\* poller is never blocked short of its termination: either its thread has
\* ended (the join returns) or it has a step to take.
C1_JoinReturns ==
    consumer = "joining" => (pc \in Terminated \/ ENABLED PollerNext)

\* C2: the channel never holds more than one snapshot the viewer has not
\* received, the completed sends never exceed the received snapshots by more
\* than one, and a send returns only when the buffer was empty.
C2_AtMostOneUndelivered ==
    /\ [](Len(chan) <= 1 /\ Len(sent) <= Len(received) + 1)
    /\ [][Len(sent') > Len(sent) => chan = << >>]_vars

\* A second send is blocked by the snapshot the viewer has not yet received.
C2_Witness ==
    /\ pc = "sending"
    /\ Len(chan) = 1
    /\ Len(sent) = Len(received) + 1

\* C3: once the poller thread has ended, try_recv yields the buffered
\* snapshot or Disconnected, never Empty; Disconnected is observed only when
\* the sender is dropped and every sent snapshot has been received; after it
\* no snapshot is received and every later try_recv yields Disconnected.
C3_ClosedAfterDrain ==
    /\ [](pc \in Terminated => TryRecv(chan, senderAlive) \in {"item", "closed"})
    /\ [](closedSeen => ~senderAlive /\ chan = << >> /\ received = sent)
    /\ [][closedSeen => closedSeen' /\ received' = received /\ lastRecv' = "closed"]_vars

\* The poller ended with a snapshot in the buffer; the viewer received it and
\* then observed Disconnected.
C3_Witness ==
    /\ pc \in Terminated
    /\ closedSeen
    /\ lastRecv = "closed"
    /\ received # << >>
    /\ content = Dot(received[Len(received)])

\* C4: when cancel() is called while the cycle is in its interval wait, no
\* further node_statuses request is issued.
C4_NoRpcAfterCancelInWait ==
    [][cancelInWait => rpcCount' = rpcCount]_vars

\* C5: once the cancelled branch of the select! has been taken, no step of
\* the abandoned cycle runs: no request, no description, no render, no send,
\* no interval wait; the poller goes to the disconnect.
C5_NoStepAfterCancelWins ==
    /\ [](leftAt # "none" =>
             pc \in {"disconnect", "grace", "drain", "stopped", "failed"})
    /\ [][leftAt = "none" /\ leftAt' # "none" => pc' = "disconnect"]_vars
    /\ [][leftAt # "none" =>
             (rpcCount' = rpcCount /\ builtFrom' = builtFrom /\
              renders' = renders /\ sent' = sent /\ cyc' = cyc /\
              leftAt' = leftAt)]_vars

\* The cancelled branch was taken while the render of the cycle was running:
\* its snapshot is never sent.
C5_Witness ==
    /\ pc = "stopped"
    /\ leftAt = "dot"
    /\ renders = Len(sent) + 1

C7_ReceivedPrefixOfSent ==
    /\ IsPrefix(received, sent)
    /\ sent = received \o chan

\* Two snapshots sent and received, a third one buffered.
C7_Witness ==
    /\ Len(received) = 2
    /\ Len(sent) = 3

\* C8: an error returned by a step of a cycle ends state_poller: the poller
\* is Failed, the sender is dropped, and from then on no request is issued,
\* no render is started, nothing is sent; the viewer's try_recv never yields
\* Empty again.
C8_ErrorEndsLoop ==
    /\ [](lastErr \in CycleErrors =>
             /\ pc = "failed"
             /\ TryRecv(chan, senderAlive) \in {"item", "closed"})
    /\ [][(lastErr \in CycleErrors) =>
             (pc' = pc /\ rpcCount' = rpcCount /\ renders' = renders /\
              sent' = sent)]_vars

\* The render of the second cycle failed, and the viewer observed the
\* closure.
C8_Witness ==
    /\ lastErr = "render"
    /\ rpcCount = 2
    /\ closedSeen

\* C9: graph_request is issued at most once, with the "state" service
\* resolved and before any node_statuses request; the graph never changes
\* once fetched, and every description is built from it.
C9_GraphFetchedOnce ==
    /\ [](graphReqs <= 1)
    /\ [](rpcCount > 0 => graphReqs = 1 /\ graph \in Graphs)
    /\ [](builtFrom # "none" => builtFrom = graph)
    /\ [][graphReqs' # graphReqs =>
             stateClient /\ transport # "none" /\ rpcCount = 0]_vars
    /\ [][graph # "none" => graph' = graph]_vars

\* Two cycles have built their description from the graph of the session.
C9_Witness ==
    /\ renders = 2
    /\ graphReqs = 1
    /\ builtFrom = graph
    /\ graph = "G2"

----------------------------------------------------------------------------
\* Properties of the viewer and of the poll loop as a state machine.

\* C14: observing Disconnected leaves the content as it was; close_at is set
\* on the first observation, to 60 s after the clock read then, and never
\* changes afterwards; Close is sent only when the clock is past close_at.
C14_CloseAfterDeadline ==
    /\ [](closedSeen <=> closeAt # None)
    /\ [][closedSeen' => content' = content]_vars
    /\ [][closeAt = None /\ closeAt' # None =>
             closeAt' = Some(now + CloseDelaySecs) /\ lastRecv' = "closed"]_vars
    /\ [][closeAt # None => closeAt' = closeAt]_vars
    /\ [][closeCmd' /\ ~closeCmd => closeAt # None /\ closeAt[1] < now]_vars

\* An image is shown, Disconnected was observed again after the clock had
\* advanced, and Close was sent once the clock was past the deadline.
C14_Witness ==
    /\ closeCmd
    /\ content # Logo
    /\ lastRecv = "closed"
    /\ closeAt = Some(CloseDelaySecs)
    /\ now > CloseDelaySecs

\* The states of the poll loop (PollLoop's state machine) as positions of
\* the poller thread.
PState(p) ==
    CASE p \in {"parse", "connect", "service"} -> "Connecting"
      [] p = "graph" -> "FetchingGraph"
      [] p \in {"loop", "select", "pollUpdate", "pollCancel", "sending"} -> "Cycling"
      [] p \in {"disconnect", "grace", "drain"} -> "Disconnecting"
      [] p = "stopped" -> "Stopped"
      [] p \in {"failed", "panicked"} -> "Failed"

ClaimedMoves ==
    { << "Connecting", "FetchingGraph" >>, << "FetchingGraph", "Cycling" >>,
      << "Cycling", "Disconnecting" >>, << "Disconnecting", "Stopped" >>,
      << "Connecting", "Failed" >>, << "FetchingGraph", "Failed" >>,
      << "Cycling", "Failed" >> }

\* C16, as claimed: the poller moves only along the claimed transitions;
\* in particular Disconnecting is left only for Stopped.
C16_ClaimedTransitions ==
    [][PState(pc') # PState(pc) =>
          << PState(pc), PState(pc') >> \in ClaimedMoves]_vars

\* C16, amended: the poller moves only along the claimed transitions and
\* from Disconnecting to Failed, the latter with the error of the
\* disconnect; Disconnecting is entered only from Cycling, by the cancelled
\* branch after cancel() was called; in Stopped and in Failed nothing of the
\* poller changes: no request, no render, no send.
C16_Transitions ==
    /\ [][PState(pc') # PState(pc) =>
             << PState(pc), PState(pc') >> \in
                ClaimedMoves \cup { << "Disconnecting", "Failed" >> }]_vars
    /\ [][PState(pc) = "Disconnecting" /\ PState(pc') = "Failed" =>
             lastErr' = "disconnect"]_vars
    /\ [][PState(pc) # "Disconnecting" /\ PState(pc') = "Disconnecting" =>
             pc = "pollCancel" /\ cancelReq /\ leftAt' = cyc]_vars
    /\ [][PState(pc) \in {"Stopped", "Failed"} =>
             UNCHANGED << pollerVars, sent >>]_vars

\* The disconnect returned an error after the loop was left by cancellation.
C16_Witness ==
    /\ pc = "failed"
    /\ lastErr = "disconnect"
    /\ leftAt = "timer"
    /\ cancelReq

\* C17, as claimed: while the buffer of the channel holds a snapshot, no
\* interval timer is started and no node_statuses request is issued.
C17_NothingWhileSlotOccupied ==
    [][chan # << >> => rpcCount' = rpcCount /\ waits' = waits]_vars

\* C17, amended: a poller that reaches the send while the buffer holds an
\* earlier snapshot stays at the send, starting no timer and issuing no
\* request, until the viewer has received that snapshot; the snapshot it
\* sends then stays in the buffer through the interval wait and the next
\* request.  When a node_statuses request is issued, each earlier request
\* has been followed by one send and then one interval wait that ran to
\* its end.
C17_BlockedAtSend ==
    /\ [][pc = "sending" /\ chan # << >> =>
             (pc' = "sending" /\ cyc' = cyc /\ rpcCount' = rpcCount /\
              sent' = sent /\ waits' = waits)]_vars
    /\ [][rpcCount' # rpcCount =>
             (rpcCount' = rpcCount + 1 /\ Len(sent) = rpcCount /\
              waits = rpcCount)]_vars
    /\ [][waits' # waits => waits' = waits + 1 /\ Len(sent) = waits']_vars

\* The second cycle is at its send with the first snapshot still in the
\* buffer, after the first interval wait.
C17_Witness ==
    /\ pc = "sending"
    /\ chan = << 1 >>
    /\ rpcCount = 2
    /\ waits = 1

\* C18: the failure of the rpc_system task changes nothing of the poll loop;
\* the poller is Failed only with the error of one of its own steps, and a
\* node_statuses request in flight after the failure is answered by an error.
C18_TransportFailureOnlyLogged ==
    /\ [][transport' = "failed" /\ transport # "failed" =>
             UNCHANGED << pc, cyc, polled, rpcResp, dotProc, timerElapsed,
                          senderAlive, lastErr, leftAt, rpcCount, renders >>]_vars
    /\ [](pc = "failed" =>
             lastErr \in {"args", "connect", "service", "graph", "disconnect"}
                            \cup CycleErrors)
    /\ [][transport = "failed" /\ rpcResp = "pending" /\
          rpcResp' \notin {"pending", "none"} => rpcResp' = "err"]_vars

\* The transport failed after the first cycle; the request of the second
\* cycle returned the error that ended the loop.
C18_Witness ==
    /\ transport = "failed"
    /\ pc = "failed"
    /\ lastErr = "rpc"
    /\ rpcCount = 2
    /\ waits = 1

\* C19: after cancel() at most one more node_statuses request is issued and
\* at most one more send returns.
C19_AtMostOneMoreAfterCancel ==
    cancelReq =>
        /\ rpcCount <= rpcAtCancel + 1
        /\ Len(sent) <= sentAtCancel + 1

\* The loop was left after a request issued after cancel().
C19_Witness ==
    /\ cancelReq
    /\ pc = "disconnect"
    /\ rpcCount = rpcAtCancel + 1
    /\ leftAt = "rpc"

\* C20: the receiver is dropped only after the poller thread has ended, so
\* the send never finds the channel disconnected and never panics.
C20_ReceiverOutlivesPoller ==
    /\ pc # "panicked"
    /\ ~receiverAlive => pc \in {"stopped", "failed"}

\* The poller sent, left the loop and ended; on_exit returned and the
\* receiver was dropped.
C20_Witness ==
    /\ ~receiverAlive
    /\ pc = "stopped"
    /\ sent # << >>

----------------------------------------------------------------------------
\* Properties of the description and of its rendering.

\* The grammar of the layout engine, as far as the descriptions use it:
\* blanks, quoted identifiers (in which \" stands for a quote and \\ for
\* itself), plain identifiers, the arrow and the punctuation.
AlNum == { "a", "b", "c", "d", "e", "f", "g", "h", "i", "j", "k", "l", "m", "n", "o", "p", "q", "r", "s", "t", "u", "v", "w", "x", "y", "z", "A", "B", "C", "D", "E", "F", "G", "H", "I", "J", "K", "L", "M", "N", "O", "P", "Q", "R", "S", "T", "U", "V", "W", "X", "Y", "Z", "0", "1", "2", "3", "4", "5", "6", "7", "8", "9" }

Str(v) == [t |-> "str", v |-> v]

Id(v) == [t |-> "id", v |-> v]

Punct(v) == [t |-> "punct", v |-> v]

Bad == [t |-> "bad", v |-> << >>]

Arrow == Punct(<< "-", ">" >>)

\* The index of the quote that closes the quoted identifier whose content
\* starts at j, or 0 when the text ends before.
RECURSIVE StrEnd(_, _)
StrEnd(text, j) ==
    IF j > Len(text) THEN 0
    ELSE IF text[j] = "\"" THEN j
    ELSE IF text[j] = "\\" /\ j < Len(text) /\ text[j + 1] \in {"\"", "\\"}
         THEN StrEnd(text, j + 2)
    ELSE StrEnd(text, j + 1)

\* The content of a quoted identifier with \" read as a quote.
RECURSIVE Unescape(_)
Unescape(s) ==
    IF s = << >> THEN << >>
    ELSE IF s[1] = "\\" /\ Len(s) > 1 /\ s[2] = "\""
         THEN << "\"" >> \o Unescape(SubSeq(s, 3, Len(s)))
    ELSE IF s[1] = "\\" /\ Len(s) > 1 /\ s[2] = "\\"
         THEN << "\\", "\\" >> \o Unescape(SubSeq(s, 3, Len(s)))
    ELSE << s[1] >> \o Unescape(Tail(s))

\* The index of the last character of the plain identifier that starts at i.
RECURSIVE IdEnd(_, _)
IdEnd(text, i) ==
    IF i < Len(text) /\ text[i + 1] \in AlNum THEN IdEnd(text, i + 1) ELSE i

\* The tokens of the text from index i on; a character that starts no token
\* and a quoted identifier that is not closed end the sequence with Bad.
RECURSIVE Lex(_, _)
Lex(text, i) ==
    IF i > Len(text) THEN << >>
    ELSE IF text[i] \in {" ", "\n"} THEN Lex(text, i + 1)
    ELSE IF text[i] = "\""
         THEN LET j == StrEnd(text, i + 1)
              IN  IF j = 0 THEN << Bad >>
                  ELSE << Str(Unescape(SubSeq(text, i + 1, j - 1))) >>
                       \o Lex(text, j + 1)
    ELSE IF text[i] = "-"
         THEN IF i < Len(text) /\ text[i + 1] = ">"
              THEN << Arrow >> \o Lex(text, i + 2)
              ELSE << Bad >>
    ELSE IF text[i] \in {"{", "}", "[", "]", "=", ","}
         THEN << Punct(<< text[i] >>) >> \o Lex(text, i + 1)
    ELSE IF text[i] \in AlNum
         THEN LET j == IdEnd(text, i)
              IN  << Id(SubSeq(text, i, j)) >> \o Lex(text, j + 1)
    ELSE << Bad >>

\* The index of the k-th occurrence of character c in the text.
Nth(text, c, k) ==
    CHOOSE i \in DOMAIN text :
        text[i] = c /\ Cardinality({ j \in 1..i : text[j] = c }) = k

Count(text, c) == Cardinality({ i \in DOMAIN text : text[i] = c })

\* The text between the brackets of the k-th edge statement.  No name of
\* BGraphs holds a bracket, so the k-th pair of brackets is the k-th edge's.
Section(text, k) ==
    SubSeq(text, Nth(text, "[", k) + 1, Nth(text, "]", k) - 1)

\* The attributes of a section: name = "value" items, separated by commas
\* or not; anything else yields an attribute named ?.
RECURSIVE AttrList(_)
AttrList(toks) ==
    IF toks = << >> THEN << >>
    ELSE IF /\ Len(toks) >= 3
            /\ toks[1].t = "id"
            /\ toks[2] = Punct(<< "=" >>)
            /\ toks[3].t = "str"
         THEN LET rest == SubSeq(toks, 4, Len(toks))
              IN  << [attr |-> toks[1].v, val |-> toks[3].v] >> \o
                  (IF rest # << >> /\ rest[1] = Punct(<< "," >>)
                   THEN AttrList(Tail(rest)) ELSE AttrList(rest))
    ELSE << [attr |-> << "?" >>, val |-> << >>] >>

EdgeAttrs(text, k) == AttrList(Lex(Section(text, k), 1))

\* The number a decimal numeral denotes.
IsNumeral(s) ==
    s # << >> /\ \A i \in DOMAIN s : \E d \in 0..9 : DigitChars[d + 1] = s[i]

DigitVal(c) == CHOOSE d \in 0..9 : DigitChars[d + 1] = c

RECURSIVE ParseNat(_)
ParseNat(s) ==
    IF Len(s) = 1 THEN DigitVal(s[1])
    ELSE 10 * ParseNat(SubSeq(s, 1, Len(s) - 1)) + DigitVal(s[Len(s)])

\* The snapshot's entry for a node: the last one of that name.
HasEntry(snap, name) == \E i \in DOMAIN snap : snap[i].node_name = name

EntryFor(snap, name) ==
    LET I == { i \in DOMAIN snap : snap[i].node_name = name }
    IN  snap[CHOOSE i \in I : \A j \in I : j <= i]

\* The attributes of the given name, as a set of indices into the list.
Named(as, name) == { i \in DOMAIN as : as[i].attr = name }

\* The labels of the k-th edge statement of a description are those the
\* snapshot asks for.
LabelsAsSnapshot(text, g, snap, k) ==
    LET e  == g.edges[k]
        as == EdgeAttrs(text, k)
        tl == Named(as, TailLabel)
        hl == Named(as, HeadLabel)
    IN  /\ HasEntry(snap, e.tail_name) <=> tl # {}
        /\ \A i \in tl :
              /\ IsNumeral(as[i].val)
              /\ ParseNat(as[i].val) =
                    EntryFor(snap, e.tail_name).output_written[e.tail_index + 1]
        /\ HasEntry(snap, e.head_name) <=> hl # {}
        /\ \A i \in hl :
              /\ IsNumeral(as[i].val)
              /\ ParseNat(as[i].val) =
                    EntryFor(snap, e.head_name).input_read[e.head_index + 1]
        /\ Cardinality(tl) <= 1 /\ Cardinality(hl) <= 1
        /\ Len(as) = Cardinality(tl) + Cardinality(hl)

\* C11: in the description a cycle has built, every edge of the graph has its
\* statement (one pair of brackets per edge, whatever the snapshot); the
\* statement of an edge carries a tail label if and only if the snapshot has
\* an entry for the tail node, and the label is then that entry's
\* output-written counter at the tail port index; likewise a head label with
\* the input-read counter at the head port index; two labels are two
\* attributes between the same brackets, and with an empty snapshot there is
\* no attribute at all.
C11_LabelsFromSnapshot ==
    bPhase = "built" =>
        /\ Count(bDot, "[") = Len(bGraph.edges)
        /\ Count(bDot, "]") = Len(bGraph.edges)
        /\ \A k \in DOMAIN bGraph.edges :
              /\ LabelsAsSnapshot(bDot, bGraph, bSnap, k)
              /\ bSnap = << >> => EdgeAttrs(bDot, k) = << >>

\* An edge with both labels, next to an edge of the same description whose
\* labels are other counters of the same two entries.
C11_Witness ==
    /\ bPhase = "built"
    /\ Len(bGraph.edges) = 2
    /\ HasEntry(bSnap, NameA) /\ HasEntry(bSnap, NameB)
    /\ Len(EdgeAttrs(bDot, 1)) = 2
    /\ EdgeAttrs(bDot, 1)[1] = [attr |-> TailLabel, val |-> << "1", "2" >>]
    /\ EdgeAttrs(bDot, 1)[2] = [attr |-> HeadLabel, val |-> << "1", "0", "5" >>]

\* The k-th arrow of a sequence of tokens.
ArrowAt(toks, k) ==
    CHOOSE p \in DOMAIN toks :
        toks[p] = Arrow /\ Cardinality({ q \in 1..p : toks[q] = Arrow }) = k

\* C12: in the description a cycle has built, the identifier of every node
\* statement and the two identifiers of every edge statement are each one
\* quoted identifier that denotes the node's name, and no character of a name
\* ends an identifier early or starts a token of its own: the tokens of the
\* description are `digraph G {`, one quoted identifier per node, and for
\* every edge its tail identifier, the arrow and its head identifier.
C12_IdentifiersWellFormed ==
    bPhase = "built" =>
        LET toks == Lex(bDot, 1)
            nn   == Len(bGraph.nodes)
            ne   == Len(bGraph.edges)
        IN  /\ \A p \in DOMAIN toks : toks[p].t # "bad"
            /\ Len(toks) >= 3 + nn
            /\ \A i \in 1..nn : toks[3 + i] = Str(bGraph.nodes[i].name)
            /\ Cardinality({ p \in DOMAIN toks : toks[p] = Arrow }) = ne
            /\ \A k \in 1..ne :
                  LET p == ArrowAt(toks, k)
                  IN  /\ p > 1 /\ p < Len(toks)
                      /\ toks[p - 1] = Str(bGraph.edges[k].tail_name)
                      /\ toks[p + 1] = Str(bGraph.edges[k].head_name)

\* The needle is a part of the text.
Contains(text, needle) ==
    /\ Len(needle) <= Len(text)
    /\ \E i \in 0..(Len(text) - Len(needle)) :
          SubSeq(text, i + 1, i + Len(needle)) = needle

\* C13: dot_to_svg returns an error exactly when the child cannot be started
\* or exits with a status other than zero; the message of the error of a
\* non-zero status contains what the child wrote to its standard error; with
\* status zero the result is what the child wrote to its standard output.
C13_ErrorCarriesStderr ==
    bPhase = "rendered" =>
        /\ ~bResult.ok <=> (~bChild.spawns \/ bChild.status # 0)
        /\ bChild.spawns /\ bChild.status # 0 =>
              ~bResult.ok /\ Contains(bResult.text, bChild.stderr)
        /\ bChild.spawns /\ bChild.status = 0 => bResult = Ok(bChild.stdout)

\* The counters of a snapshot.
Counters(snap) ==
    UNION { { snap[i].output_written[p] : p \in DOMAIN snap[i].output_written }
            \cup { snap[i].input_read[p] : p \in DOMAIN snap[i].input_read } :
            i \in DOMAIN snap }

\* C15: of the descriptions the cycles of a run have built from the run's
\* graph, two that were built from the same snapshot are the same text,
\* whatever the cycles before them saw; and every description has one
\* statement per edge of the graph, whose labels are counters of the
\* snapshot of its own cycle.
C15_DescriptionFromOwnSnapshot ==
    /\ \A i, j \in DOMAIN bHist :
          bHist[i].snap = bHist[j].snap => bHist[i].dot = bHist[j].dot
    /\ \A i \in DOMAIN bHist :
          /\ Count(bHist[i].dot, "[") = Len(bGraph.edges)
          /\ \A k \in DOMAIN bGraph.edges :
                LET as == EdgeAttrs(bHist[i].dot, k)
                IN  \A a \in DOMAIN as :
                       /\ IsNumeral(as[a].val)
                       /\ ParseNat(as[a].val) \in Counters(bHist[i].snap)

\* Three cycles of a run with labelled edges: the third sees the snapshot of
\* the first again, after a second cycle that saw other counters.
C15_Witness ==
    /\ Len(bHist) = 3
    /\ bGraph.edges # << >>
    /\ bHist[1].snap = bHist[3].snap
    /\ bHist[2].snap # bHist[1].snap
    /\ EdgeAttrs(bHist[1].dot, 1) # << >>
    /\ EdgeAttrs(bHist[2].dot, 1) # << >>
    /\ EdgeAttrs(bHist[2].dot, 1) # EdgeAttrs(bHist[1].dot, 1)

====
